---- MODULE Spec2Model ----
(***************************************************************************)
(* Token lifecycle of the M365 Graph CLI: the on-disk token cache and its   *)
(* candidate paths (m365-cli.js), the Token Manager getAccessToken          *)
(* (m365-cli.js), and the two device-code authenticators (auth script with  *)
(* a hand-written device-code flow, and msal-auth.mjs).                     *)
(*                                                                         *)
(* Each CLI invocation is one operating-system process p \in Procs; the     *)
(* processes share nothing but the files.  An invocation runs               *)
(*   idle -> accounts -> silent -> (refreshing ->) acquired -> done         *)
(* and every failure ends it in done with an error result.                  *)
(***************************************************************************)
EXTENDS Integers, FiniteSets, Sequences, TLC

(* ------------------------------ bounds -------------------------------- *)

\* the clock runs over 0..MaxTime (epoch seconds, scaled)
MaxTime == 3
\* a token response's expires_in is drawn from 1..MaxExpiresIn
MaxExpiresIn == 2
\* a device-code response's expires_in is drawn from 1..MaxDeviceExpiresIn
MaxDeviceExpiresIn == 4
\* a device-code response's interval is drawn from 0..MaxInterval
MaxInterval == 2

\* the CLI invocations: two separate processes, which may overlap in any way
Procs == {1, 2}

(* --------------------------- program constants ------------------------ *)

\* TOKEN_CACHE_PATHS, by index: 1 is path.join(__dirname, '.m365-token-cache.json'),
\* 2 and 3 are the two interop caches under /data.
TOKEN_CACHE_PATHS == <<1, 2, 3>>

\* path.join(__dirname, '.m365-token-cache.json') of the auth script: the same
\* directory as m365-cli.js, hence the first candidate path.
TOKEN_CACHE_PATH == TOKEN_CACHE_PATHS[1]

\* A path outside the candidate list: where msal-auth.mjs's absolute
\* TOKEN_CACHE_PATH points when the CLI is installed in any directory other than
\* /data/.openclaw/workspace/scripts/m365-graph-cli.
ForeignPath == Len(TOKEN_CACHE_PATHS) + 1

Paths == {TOKEN_CACHE_PATHS[i] : i \in 1..Len(TOKEN_CACHE_PATHS)} \cup {ForeignPath}

\* the scope string the auth script stores as the access token's target, as the
\* set of its space-separated scopes
SCOPES == {"Calendars.Read", "Mail.Read", "Mail.ReadWrite", "offline_access"}
\* scopes: ['Calendars.Read', 'Mail.Read', 'Mail.ReadWrite'] of getAccessToken
RequestScopes == {"Calendars.Read", "Mail.Read", "Mail.ReadWrite"}
\* the target of an access token some other tool cached for other scopes
OtherScopes == {"User.Read"}

ProviderErrors == {"invalid_grant", "invalid_client"}

\* Durations are in units of five seconds.
\* const pollInterval = deviceCode.interval * 1000 || 5000: the 5000
DefaultPollInterval == 1
\* await sleep(5000) of the slow_down branch
SlowDownSleep == 1

\* the error codes the token endpoint answers a device-code grant with; the
\* last one stands for every code the script has no branch for
TokenErrors == {"authorization_pending", "slow_down", "expired_token", "access_denied"}

\* the value of now + tokens.expires_in when expires_in is undefined: NaN, which
\* every comparison with a number answers false to
NaN == 0 - 1000

(* ---------------------------- store documents ------------------------- *)

EmptyDoc == [Account |-> {}, AccessToken |-> {}, RefreshToken |-> {}, IdToken |-> {}]

NoFile == [kind |-> "absent", doc |-> EmptyDoc]
CorruptFile == [kind |-> "corrupt", doc |-> EmptyDoc]
UnreadableFile == [kind |-> "unreadable", doc |-> EmptyDoc]
JsonFile(d) == [kind |-> "json", doc |-> d]
\* a file a writeFileSync has opened (and so truncated) and not written yet
TruncatedFile == [kind |-> "truncated", doc |-> EmptyDoc]
\* a file holding the text of one document followed by the tail of a longer one
MixedFile == [kind |-> "mixed", doc |-> EmptyDoc]

\* an Account record: username, and name (the display name; "" while unset)
AccountEntry(user, display) == [username |-> user, name |-> display]
AccessTokenEntry(s, tgt, at, exp) ==
    [secret |-> s, target |-> tgt, cached_at |-> at, expires_on |-> exp]
SecretEntry(s) == [secret |-> s]

(* ------------------------------- state -------------------------------- *)

VARIABLES
    now,            \* wall clock
    files,          \* [Paths -> file content]: the file system
    installedAtDefault, \* __dirname = /data/.openclaw/workspace/scripts/m365-graph-cli
    issued,         \* the last secret the identity provider issued
    pc,             \* [Procs -> position of the invocation in getAccessToken]
    cachePath,      \* [Procs -> getAccessToken's const cachePath]
    cacheData,      \* [Procs -> getAccessToken's const cacheData (the text read)]
    accounts,       \* [Procs -> getAccessToken's const accounts]
    response,       \* [Procs -> response.accessToken of acquireTokenSilent]
    result,         \* [Procs -> what getAccessToken returned or threw]
    seen,           \* [Procs -> what the invocation found at cachePath]
    lookupAt,       \* [Procs -> the time acquireTokenSilent looked the cache up]
    netCalls,       \* [Procs -> token-endpoint requests sent by the invocation]
    tokenResponse,  \* [Procs -> the provider's answer to the refresh grant]
    written,        \* [Procs -> the last writeFileSync of the invocation]
    authPc,         \* position of the auth script (hand-written device-code flow)
    authTokens,     \* the auth script's tokenResult
    env,            \* the auth script's process.env: which values are set
    pollPc,         \* the auth script's position in the polling loop
    pollInterval,   \* the auth script's const pollInterval
    expiresAt,      \* the auth script's const expiresAt
    wakeAt,         \* when the auth script's pending sleep() is due
    authLog,        \* what the auth script did so far (requests, answers, exit)
    saved,          \* the document handed to saveCache
    loaded,         \* what loadCache returned after it
    msalAuthPc,     \* position of msal-auth.mjs
    lastWrite       \* who wrote a store last, where and what

cliVars == <<pc, cachePath, cacheData, accounts, response, result, seen, lookupAt,
             netCalls, tokenResponse, written>>
pollVars == <<env, pollPc, pollInterval, expiresAt, wakeAt, authLog>>
roundTripVars == <<saved, loaded>>
authVars == <<authPc, authTokens, msalAuthPc, pollVars, roundTripVars>>
vars == <<now, files, installedAtDefault, issued, cliVars, authVars, lastWrite>>

NoResult == [kind |-> "none", detail |-> "", token |-> 0]
TokenResult(s) == [kind |-> "token", detail |-> "", token |-> s]
ErrorResult(k, d) == [kind |-> k, detail |-> d, token |-> 0]

NoTokens == [access_token |-> 0, refresh_token |-> 0, id_token |-> 0, expires_in |-> 0]
\* a token-endpoint answer: error = "" and tokens, or an error code and no tokens
NoResponse == [error |-> "none", access_token |-> 0, refresh_token |-> 0, expires_in |-> 0]
Granted(at, rt, e) == [error |-> "", access_token |-> at, refresh_token |-> rt, expires_in |-> e]
Rejected(err) == [error |-> err, access_token |-> 0, refresh_token |-> 0, expires_in |-> 0]
NoWritten == [path |-> 0, doc |-> EmptyDoc]
\* saveCache not called yet; loadCache not called yet
NotSaved == [done |-> FALSE, doc |-> EmptyDoc, resolved |-> 0]
NotLoaded == [kind |-> "none", doc |-> EmptyDoc]
\* nothing done yet: no request sent, no answer seen, not exited (exit = -1)
\* net: requests sent; exit: the exit code; sentAt, sentLate: when the last token
\* request was sent, and whether one was sent after expiresAt; prev, prevAt: the
\* outcome of the last token request and when it came; pendings: the
\* authorization_pending answers; savedAt: when saveTokenCache ran; lookup: the
\* outcome of the profile lookup; before: the file at TOKEN_CACHE_PATH when the
\* script started
NoLog == [net |-> 0, exit |-> -1, sentAt |-> -1, sentLate |-> FALSE, prev |-> "",
          prevAt |-> -1, pendings |-> 0, savedAt |-> -1, lookup |-> "",
          before |-> NoFile]
NoWrite == [by |-> "none", path |-> 0, doc |-> EmptyDoc]

(* ------------------------- store resolution --------------------------- *)

existsSync(fs, p) == fs[p].kind # "absent"

\* a loop that keeps the last existing path instead of returning the first
RECURSIVE findFromLast(_, _)
findFromLast(fs, i) ==
    IF i > Len(TOKEN_CACHE_PATHS) THEN 0
    ELSE LET later == findFromLast(fs, i + 1) IN
         IF later # 0 THEN later
         ELSE IF existsSync(fs, TOKEN_CACHE_PATHS[i]) THEN TOKEN_CACHE_PATHS[i]
         ELSE 0

\* for (const p of TOKEN_CACHE_PATHS) { if (fs.existsSync(p)) return p; }
RECURSIVE findFrom(_, _)
findFrom(fs, i) ==
    IF i > Len(TOKEN_CACHE_PATHS) THEN 0
    ELSE IF existsSync(fs, TOKEN_CACHE_PATHS[i]) THEN TOKEN_CACHE_PATHS[i]
    ELSE findFrom(fs, i + 1)

\* the return after the loop: TOKEN_CACHE_PATHS[0], "Default to local"
findDefault == TOKEN_CACHE_PATHS[1]

findTokenCache(fs) ==
    LET found == findFrom(fs, 1) IN IF found # 0 THEN found ELSE findDefault

\* the members of a serialized document, in the order the text lists them
Members(text) == {text[i] : i \in DOMAIN text}

\* a serialization that leaves the last top-level member out
stringifyAllButLast(d) ==
    LET keys == <<"Account", "AccessToken", "RefreshToken">> IN
    [i \in DOMAIN keys |-> [key |-> keys[i], value |-> d[keys[i]]]]

\* JSON.stringify(cache, null, 2): the text, as the sequence of the top-level
\* members (key and value) of the document in the order of its keys
stringify(d) ==
    LET keys == <<"Account", "AccessToken", "RefreshToken", "IdToken">> IN
    [i \in DOMAIN keys |-> [key |-> keys[i], value |-> d[keys[i]]]]

\* JSON.parse(text): the object with one property for each member of the text
parse(text) ==
    [k \in {m.key : m \in Members(text)} |->
        (CHOOSE m \in Members(text) : m.key = k).value]

\* loadCache(): null (here NoFile) when the resolved path is absent, unreadable
\* or unparseable, the parsed document otherwise.
loadCache(fs) ==
    LET cp == findTokenCache(fs) IN
    IF ~existsSync(fs, cp) THEN NoFile
    ELSE IF fs[cp].kind = "json" THEN fs[cp] ELSE NoFile

\* saveCache(cache): writes TOKEN_CACHE_PATHS[0], "Save to local"
saveCache(fs, cache) ==
    [fs EXCEPT ![TOKEN_CACHE_PATHS[1]] = JsonFile(parse(stringify(cache)))]

(* --------------------- the token cache of msal-node -------------------- *)
(* getAccessToken hands the text it read to the library through the cache  *)
(* plugin; what the library does with it is modelled from the algorithm of *)
(* the Token Manager (look the access token up, else refresh).             *)

\* context.tokenCache.deserialize(cacheData): the outcomes of parsing the text.
\* For a text that is not JSON the library either throws the parse exception or
\* ends with an empty cache; the source fixes neither, so both are outcomes.
deserialize(data) ==
    IF data.kind = "json" THEN {[ok |-> TRUE, doc |-> data.doc]}
    ELSE {[ok |-> FALSE, doc |-> EmptyDoc], [ok |-> TRUE, doc |-> EmptyDoc]}

\* a request that asks for a refresh whatever the cache holds
SilentRequestForced == [scopes |-> RequestScopes, forceRefresh |-> TRUE]

\* the request getAccessToken passes to acquireTokenSilent
SilentRequest == [scopes |-> RequestScopes, forceRefresh |-> FALSE]

\* the access tokens of the cache that match the account and the scopes asked
\* for: the target covers every scope of the request
Matching(doc, scopes) ==
    IF doc.Account = {} THEN {} ELSE {a \in doc.AccessToken : scopes \subseteq a.target}

\* a token is valid iff the current time is strictly before expires_on
IsValid(a, t) == t < a.expires_on

\* the cache lookup of acquireTokenSilent: the valid matching access tokens
CacheLookup(doc, req, t) ==
    IF req.forceRefresh THEN {}
    ELSE {a \in Matching(doc, req.scopes) : IsValid(a, t)}

\* the cache after a successful refresh grant: the new access token replaces the
\* entries whose target shares a scope with it, and the refresh token is replaced
\* if the provider issued a replacement (rt = 0: none issued).
SaveRefreshed(doc, scopes, at, rt, t, expiresIn) ==
    [doc EXCEPT
        !.AccessToken = {a \in @ : a.target \cap scopes = {}}
                            \cup {AccessTokenEntry(at, scopes, t, t + expiresIn)},
        !.RefreshToken = IF rt = 0 THEN @ ELSE {SecretEntry(rt)}]

(* ---------------------------- getAccessToken --------------------------- *)

\* an afterCacheAccess that never writes
afterCacheAccessNever(cacheHasChanged) == FALSE

\* an afterCacheAccess without the cacheHasChanged test
afterCacheAccessAlways(cacheHasChanged) == TRUE

\* afterCacheAccess: if (context.cacheHasChanged) fs.writeFileSync(cachePath, ...)
afterCacheAccessWrites(cacheHasChanged) == cacheHasChanged

\* the plugin's afterCacheAccess, applied to the file system
afterCacheAccess(fs, path, cacheHasChanged, doc) ==
    IF afterCacheAccessWrites(cacheHasChanged)
    THEN [fs EXCEPT ![path] = JsonFile(doc)]
    ELSE fs

\* a length test that never fires
noAccountsNever(accts) == FALSE

\* if (accounts.length === 0) throw new Error('No account found. ...')
noAccounts(accts) == Cardinality(accts) = 0

\* a catch block that drops error.message
catchSilentGeneric(message) ==
    [pc |-> "done", result |-> ErrorResult("TokenAcquisitionFailed", "")]

\* a catch block that tries acquireTokenSilent again
catchSilentRetry(message) == [pc |-> "silent", result |-> NoResult]

\* catch (error) { throw new Error(`Token acquisition failed: ${error.message}...`) }
\* : the invocation ends, and the error carries the library's error message.
catchSilent(message) ==
    [pc |-> "done", result |-> ErrorResult("TokenAcquisitionFailed", message)]

\* lines 61-67: resolve the path, fail if it is absent, read the text.
\* readFileSync of an unreadable file throws; nothing catches it.
Start(p) ==
    /\ pc[p] = "idle"
    /\ LET cp == findTokenCache(files) IN
        /\ cachePath' = [cachePath EXCEPT ![p] = cp]
        /\ seen' = [seen EXCEPT ![p] = files[cp].kind]
        /\ IF ~existsSync(files, cp)
           THEN /\ result' = [result EXCEPT ![p] = ErrorResult("NoCredentials", "No token cache found")]
                /\ pc' = [pc EXCEPT ![p] = "done"]
                /\ UNCHANGED cacheData
           ELSE IF files[cp].kind = "unreadable"
           THEN /\ result' = [result EXCEPT ![p] = ErrorResult("ReadError", "EACCES")]
                /\ pc' = [pc EXCEPT ![p] = "done"]
                /\ UNCHANGED cacheData
           ELSE /\ cacheData' = [cacheData EXCEPT ![p] = files[cp]]
                /\ pc' = [pc EXCEPT ![p] = "accounts"]
                /\ UNCHANGED result
    /\ UNCHANGED <<now, files, installedAtDefault, issued, accounts, response,
                   lookupAt, netCalls, tokenResponse, written, authVars, lastWrite>>

\* lines 90-93: getAllAccounts (beforeCacheAccess deserializes the text,
\* afterCacheAccess runs with cacheHasChanged false), then the length check.
GetAccounts(p) ==
    /\ pc[p] = "accounts"
    /\ \E out \in deserialize(cacheData[p]) :
        IF ~out.ok
        THEN /\ result' = [result EXCEPT ![p] = ErrorResult("ParseError", "SyntaxError")]
             /\ pc' = [pc EXCEPT ![p] = "done"]
             /\ UNCHANGED <<accounts, files, written, lastWrite>>
        ELSE /\ accounts' = [accounts EXCEPT ![p] = out.doc.Account]
             /\ files' = afterCacheAccess(files, cachePath[p], FALSE, out.doc)
             /\ written' = [written EXCEPT ![p] =
                            IF afterCacheAccessWrites(FALSE)
                            THEN [path |-> cachePath[p], doc |-> out.doc] ELSE @]
             /\ lastWrite' = IF afterCacheAccessWrites(FALSE)
                             THEN [by |-> "cli", path |-> cachePath[p], doc |-> out.doc]
                             ELSE lastWrite
             /\ IF noAccounts(out.doc.Account)
                THEN /\ result' = [result EXCEPT ![p] = ErrorResult("NoAccount", "No account found")]
                     /\ pc' = [pc EXCEPT ![p] = "done"]
                ELSE /\ pc' = [pc EXCEPT ![p] = "silent"]
                     /\ UNCHANGED result
    /\ UNCHANGED <<now, installedAtDefault, issued, cachePath, cacheData, response,
                   seen, lookupAt, netCalls, tokenResponse, authVars>>

\* lines 97-100, up to the first suspension of acquireTokenSilent: a cache hit
\* answers at once; with no refresh token the library throws; otherwise the
\* refresh grant is sent.  accounts[0] of an empty list is undefined, which the
\* library rejects.
AcquireSilent(p) ==
    /\ pc[p] = "silent"
    /\ lookupAt' = [lookupAt EXCEPT ![p] = now]
    /\ LET doc == cacheData[p].doc
           hit == CacheLookup(doc, SilentRequest, now)
       IN
        IF accounts[p] = {}
        THEN /\ pc' = [pc EXCEPT ![p] = catchSilent("no_account_in_silent_request").pc]
             /\ result' = [result EXCEPT ![p] = catchSilent("no_account_in_silent_request").result]
             /\ UNCHANGED <<response, netCalls>>
        ELSE IF hit # {}
        THEN /\ response' = [response EXCEPT ![p] = (CHOOSE a \in hit : TRUE).secret]
             /\ pc' = [pc EXCEPT ![p] = "acquired"]
             /\ UNCHANGED <<result, netCalls>>
        ELSE IF doc.RefreshToken = {}
        THEN /\ pc' = [pc EXCEPT ![p] = catchSilent("no_tokens_found").pc]
             /\ result' = [result EXCEPT ![p] = catchSilent("no_tokens_found").result]
             /\ UNCHANGED <<response, netCalls>>
        ELSE /\ netCalls' = [netCalls EXCEPT ![p] = @ + 1]
             /\ pc' = [pc EXCEPT ![p] = "refreshing"]
             /\ UNCHANGED <<response, result>>
    /\ UNCHANGED <<now, files, installedAtDefault, issued, cachePath, cacheData,
                   accounts, seen, tokenResponse, written, authVars, lastWrite>>

\* the provider rejects the refresh grant: acquireTokenSilent throws, line 103-106
RefreshRejected(p) ==
    /\ pc[p] = "refreshing"
    /\ \E e \in ProviderErrors :
        /\ tokenResponse' = [tokenResponse EXCEPT ![p] = Rejected(e)]
        /\ pc' = [pc EXCEPT ![p] = catchSilent(e).pc]
        /\ result' = [result EXCEPT ![p] = catchSilent(e).result]
    /\ UNCHANGED <<now, files, installedAtDefault, issued, cachePath, cacheData,
                   accounts, response, seen, lookupAt, netCalls, written,
                   authVars, lastWrite>>

\* the provider grants the refresh: the library deserializes the text again
\* (beforeCacheAccess), stores the new tokens and calls afterCacheAccess with
\* cacheHasChanged true, which writes cachePath.
RefreshGranted(p) ==
    /\ pc[p] = "refreshing"
    /\ \E rotate \in BOOLEAN, expiresIn \in 1..MaxExpiresIn :
        LET at == issued + 1
            rt == IF rotate THEN issued + 2 ELSE 0
            doc == SaveRefreshed(cacheData[p].doc, SilentRequest.scopes, at, rt,
                                 now, expiresIn)
        IN  /\ issued' = issued + 2
            /\ files' = afterCacheAccess(files, cachePath[p], TRUE, doc)
            /\ written' = [written EXCEPT ![p] =
                            IF afterCacheAccessWrites(TRUE)
                            THEN [path |-> cachePath[p], doc |-> doc] ELSE @]
            /\ tokenResponse' = [tokenResponse EXCEPT ![p] = Granted(at, rt, expiresIn)]
            /\ lastWrite' = IF afterCacheAccessWrites(TRUE)
                            THEN [by |-> "cli", path |-> cachePath[p], doc |-> doc]
                            ELSE lastWrite
            /\ response' = [response EXCEPT ![p] = at]
    /\ pc' = [pc EXCEPT ![p] = "acquired"]
    /\ UNCHANGED <<now, installedAtDefault, cachePath, cacheData, accounts, result,
                   seen, lookupAt, netCalls, authVars>>

\* fs.writeFileSync(path, text), first half: the file is opened for writing,
\* which creates or truncates it
openTruncate(fs, path) == [fs EXCEPT ![path] = TruncatedFile]

\* fs.writeFileSync(path, text), second half: the text is written from offset 0.
\* A file still empty, or already holding this text, then holds it; a file that
\* another process has written since the open keeps the tail of that text when
\* it is the longer one.
writeData(fs, path, doc) ==
    IF fs[path] \in {TruncatedFile, JsonFile(doc)}
    THEN {[fs EXCEPT ![path] = JsonFile(doc)]}
    ELSE {[fs EXCEPT ![path] = JsonFile(doc)], [fs EXCEPT ![path] = MixedFile]}

\* lines 84-88 and 98-102, seen from other processes: the provider granted the
\* refresh and afterCacheAccess entered writeFileSync, which has opened the file.
RefreshGrantedOpen(p) ==
    /\ pc[p] = "refreshing"
    /\ \E rotate \in BOOLEAN, expiresIn \in 1..MaxExpiresIn :
        LET at == issued + 1
            rt == IF rotate THEN issued + 2 ELSE 0
            doc == SaveRefreshed(cacheData[p].doc, SilentRequest.scopes, at, rt,
                                 now, expiresIn)
        IN  /\ issued' = issued + 2
            /\ files' = openTruncate(files, cachePath[p])
            /\ written' = [written EXCEPT ![p] = [path |-> cachePath[p], doc |-> doc]]
            /\ tokenResponse' = [tokenResponse EXCEPT ![p] = Granted(at, rt, expiresIn)]
            /\ response' = [response EXCEPT ![p] = at]
    /\ pc' = [pc EXCEPT ![p] = "writing"]
    /\ UNCHANGED <<now, installedAtDefault, cachePath, cacheData, accounts, result,
                   seen, lookupAt, netCalls, authVars, lastWrite>>

\* line 85, seen from other processes: writeFileSync writes the text and returns.
RefreshGrantedWrite(p) ==
    /\ pc[p] = "writing"
    /\ files' \in writeData(files, written[p].path, written[p].doc)
    /\ lastWrite' = [by |-> "cli", path |-> written[p].path, doc |-> written[p].doc]
    /\ pc' = [pc EXCEPT ![p] = "acquired"]
    /\ UNCHANGED <<now, installedAtDefault, issued, cachePath, cacheData, accounts,
                   response, result, seen, lookupAt, netCalls, tokenResponse, written,
                   authVars>>

\* line 102: return response.accessToken
Return(p) ==
    /\ pc[p] = "acquired"
    /\ result' = [result EXCEPT ![p] = TokenResult(response[p])]
    /\ pc' = [pc EXCEPT ![p] = "done"]
    /\ UNCHANGED <<now, files, installedAtDefault, issued, cachePath, cacheData,
                   accounts, response, seen, lookupAt, netCalls, tokenResponse,
                   written, authVars, lastWrite>>

(* ------------------- the auth script (device-code flow) ---------------- *)

\* if (!TENANT_ID || !CLIENT_ID): the required values the script tests
envMissing(e) == ~e.tenant \/ ~e.client

\* const pollInterval = deviceCode.interval * 1000 || 5000, interval = 0 standing
\* for a missing or zero interval
pollIntervalOf(interval) == IF interval = 0 THEN DefaultPollInterval ELSE interval

\* a slow_down branch that does not sleep
afterSlowDownNoSleep(t) == t

\* await sleep(5000) of the slow_down branch, entered at t: when it is due
afterSlowDown(t) == t + SlowDownSleep

\* a chain without the authorization_pending branch
onTokenResultNoPending(error) ==
    IF error = "" THEN "save"
    ELSE IF error = "slow_down" THEN "slow"
    ELSE IF error = "expired_token" THEN "Expired"
    ELSE "Failed"

\* a chain whose last branch does not exit
onTokenResultFallThrough(error) ==
    IF error = "" THEN "save"
    ELSE IF error = "authorization_pending" THEN "continue"
    ELSE IF error = "slow_down" THEN "slow"
    ELSE IF error = "expired_token" THEN "Expired"
    ELSE "save"

\* lines 94-116: the branch a tokenResult takes, error = "" standing for a
\* tokenResult without an error property
onTokenResult(error) ==
    IF error = "" THEN "save"
    ELSE IF error = "authorization_pending" THEN "continue"
    ELSE IF error = "slow_down" THEN "slow"
    ELSE IF error = "expired_token" THEN "Expired"
    ELSE "Failed"

\* a + b of JavaScript numbers, one of which may be NaN
plus(a, b) == IF a = NaN \/ b = NaN THEN NaN ELSE a + b

\* a saveTokenCache that creates the IdToken map only for a response with an
\* ID token
saveTokenCacheSparse(tokens, t) ==
    LET base == [Account |-> {AccountEntry("user@domain.com", "")},
                 AccessToken |-> {AccessTokenEntry(tokens.access_token, SCOPES, t,
                                                   plus(t, tokens.expires_in))},
                 RefreshToken |-> IF tokens.refresh_token # 0
                                  THEN {SecretEntry(tokens.refresh_token)} ELSE {}]
    IN  IF tokens.id_token # 0
        THEN [Account |-> base.Account, AccessToken |-> base.AccessToken,
              RefreshToken |-> base.RefreshToken,
              IdToken |-> {SecretEntry(tokens.id_token)}]
        ELSE base

\* saveTokenCache(tokens): the document built from scratch from a token response.
\* A missing access_token is secret 0, a missing expires_in is NaN (undefined in
\* now + tokens.expires_in).
saveTokenCache(tokens, t) ==
    LET expiresOn == plus(t, tokens.expires_in) IN
    [Account |-> {AccountEntry("user@domain.com", "")},
     AccessToken |-> {AccessTokenEntry(tokens.access_token, SCOPES, t, expiresOn)},
     RefreshToken |-> IF tokens.refresh_token # 0
                      THEN {SecretEntry(tokens.refresh_token)} ELSE {},
     IdToken |-> IF tokens.id_token # 0 THEN {SecretEntry(tokens.id_token)} ELSE {}]

\* the token responses without an error property: with or without each of the
\* three tokens, expires_in drawn from E and access_token present as A says
TokenResponses(E, A) ==
    { [access_token |-> IF a THEN issued + 1 ELSE 0,
       refresh_token |-> IF r THEN issued + 2 ELSE 0,
       id_token |-> IF i THEN issued + 3 ELSE 0,
       expires_in |-> e] : a \in A, r \in BOOLEAN, i \in BOOLEAN, e \in E }

\* the expires_in of a token response: missing, negative, zero or positive
ExpiresIns == {NaN} \cup (-1..MaxExpiresIn)

\* lines 29-49: the environment test, then the device-code request is sent.
AuthStart ==
    /\ authPc = "Start"
    /\ IF envMissing(env)
       THEN /\ authPc' = "Failed"
            /\ authLog' = [authLog EXCEPT !.exit = 1,
                                          !.before = files[TOKEN_CACHE_PATH]]
       ELSE /\ authPc' = "RequestingCode"
            /\ authLog' = [authLog EXCEPT !.net = @ + 1,
                                          !.before = files[TOKEN_CACHE_PATH]]
    /\ UNCHANGED <<now, files, installedAtDefault, issued, cliVars, authTokens,
                   msalAuthPc, env, pollPc, pollInterval, expiresAt, wakeAt,
                   roundTripVars, lastWrite>>

\* lines 51-72: the device-code endpoint answered; a non-2xx answer exits, any
\* other fixes pollInterval and expiresAt and enters the loop.
AuthDeviceCode ==
    /\ authPc = "RequestingCode"
    /\ \/ /\ authPc' = "Failed"
          /\ authLog' = [authLog EXCEPT !.exit = 1]
          /\ UNCHANGED <<pollPc, pollInterval, expiresAt>>
       \/ \E interval \in 0..MaxInterval, expires_in \in 1..MaxDeviceExpiresIn :
          /\ pollInterval' = pollIntervalOf(interval)
          /\ expiresAt' = now + expires_in
          /\ authPc' = "Polling"
          /\ pollPc' = "top"
          /\ UNCHANGED authLog
    /\ UNCHANGED <<now, files, installedAtDefault, issued, cliVars, authTokens,
                   msalAuthPc, env, wakeAt, roundTripVars, lastWrite>>

\* a loop without a deadline: while (true)
beforeDeadlineAlways(t, deadline) == TRUE

\* line 72: the loop test Date.now() < expiresAt
beforeDeadline(t, deadline) == t < deadline

\* lines 72-73 and 126-127: while (Date.now() < expiresAt) enters sleep(pollInterval);
\* otherwise the loop ends, "Authentication timed out", process.exit(1).
PollTop ==
    /\ authPc = "Polling" /\ pollPc = "top"
    /\ IF beforeDeadline(now, expiresAt)
       THEN /\ pollPc' = "sleeping"
            /\ wakeAt' = now + pollInterval
            /\ UNCHANGED <<authPc, authLog>>
       ELSE /\ authPc' = "Expired"
            /\ authLog' = [authLog EXCEPT !.exit = 1]
            /\ UNCHANGED <<pollPc, wakeAt>>
    /\ UNCHANGED <<now, files, installedAtDefault, issued, cliVars, authTokens,
                   msalAuthPc, env, pollInterval, expiresAt, roundTripVars, lastWrite>>

\* lines 73-90: sleep(pollInterval) is over, no sooner than it was due; the token
\* request is sent.
PollSend ==
    /\ authPc = "Polling" /\ pollPc = "sleeping"
    /\ now >= wakeAt
    /\ pollPc' = "requesting"
    /\ authLog' = [authLog EXCEPT !.net = @ + 1, !.sentAt = now,
                                  !.sentLate = @ \/ now > expiresAt]
    /\ UNCHANGED <<now, files, installedAtDefault, issued, cliVars, authPc, authTokens,
                   msalAuthPc, env, pollInterval, expiresAt, wakeAt, roundTripVars,
                   lastWrite>>

\* lines 92-116: what the script does with the tokenResult of the request in flight
HandleTokenResult(error, tokens) ==
    /\ authPc = "Polling" /\ pollPc = "requesting"
    /\ LET branch == onTokenResult(error)
           log == [authLog EXCEPT !.prev = IF error = "" THEN "tokens" ELSE error,
                                  !.prevAt = now,
                                  !.pendings = IF error = "authorization_pending"
                                               THEN @ + 1 ELSE @]
           doc == saveTokenCache(tokens, now)
       IN  CASE branch = "save" ->
                /\ authTokens' = tokens
                /\ files' = [files EXCEPT ![TOKEN_CACHE_PATH] = JsonFile(doc)]
                /\ lastWrite' = [by |-> "auth", path |-> TOKEN_CACHE_PATH, doc |-> doc]
                /\ issued' = issued + 3
                /\ authPc' = "Saved"
                /\ authLog' = [log EXCEPT !.savedAt = now]
                /\ UNCHANGED <<pollPc, wakeAt>>
            [] branch = "continue" ->
                /\ pollPc' = "top"
                /\ authLog' = log
                /\ UNCHANGED <<authTokens, files, lastWrite, issued, authPc, wakeAt>>
            [] branch = "slow" ->
                /\ pollPc' = "slowdown"
                /\ wakeAt' = afterSlowDown(now)
                /\ authLog' = log
                /\ UNCHANGED <<authTokens, files, lastWrite, issued, authPc>>
            [] OTHER ->
                /\ authPc' = branch
                /\ authLog' = [log EXCEPT !.exit = 1]
                /\ UNCHANGED <<authTokens, files, lastWrite, issued, pollPc, wakeAt>>
    /\ UNCHANGED <<now, installedAtDefault, cliVars, msalAuthPc, env, pollInterval,
                   expiresAt, roundTripVars>>

\* lines 92-110: the token endpoint answered with an error code.
PollError == \E error \in TokenErrors : HandleTokenResult(error, NoTokens)

\* lines 92-116: the token endpoint answered with a body that has no error
\* property, whatever else it has.
PollAccepted ==
    \E tokens \in TokenResponses(ExpiresIns, BOOLEAN) : HandleTokenResult("", tokens)

\* lines 112-116: the token endpoint answered with tokens; saveTokenCache writes
\* TOKEN_CACHE_PATH.
AuthTokenSuccess ==
    \E tokens \in TokenResponses(1..MaxExpiresIn, {TRUE}) : HandleTokenResult("", tokens)

\* lines 101-102: sleep(5000) is over, no sooner than it was due; continue.
PollSlowDownDone ==
    /\ authPc = "Polling" /\ pollPc = "slowdown"
    /\ now >= wakeAt
    /\ pollPc' = "top"
    /\ UNCHANGED <<now, files, installedAtDefault, issued, cliVars, authPc, authTokens,
                   msalAuthPc, env, pollInterval, expiresAt, wakeAt, authLog,
                   roundTripVars, lastWrite>>

\* lines 227-230: a fetch of initiateDeviceCodeFlow rejected or a body was not
\* JSON; the rejection reaches the catch of the call, process.exit(1).
AuthFetchThrows ==
    /\ \/ authPc = "RequestingCode"
       \/ authPc = "Polling" /\ pollPc = "requesting"
    /\ authPc' = "Failed"
    /\ authLog' = [authLog EXCEPT !.exit = 1,
                                  !.prev = IF authPc = "Polling" THEN "exception" ELSE @,
                                  !.prevAt = IF authPc = "Polling" THEN now ELSE @]
    /\ UNCHANGED <<now, files, installedAtDefault, issued, cliVars, authTokens,
                   msalAuthPc, env, pollPc, pollInterval, expiresAt, wakeAt,
                   roundTripVars, lastWrite>>

\* an update that writes the account alone
enrichAccountOnly(doc) ==
    [EmptyDoc EXCEPT !.Account = {AccountEntry("user@contoso.com", "User")}]

\* showUserInfo, lines 207-214: the account of the file as it is now gets the
\* profile's username and display name, and the file is written back.
enrich(doc) ==
    LET first == CHOOSE a \in doc.Account : TRUE IN
    [doc EXCEPT !.Account = (@ \ {first}) \cup {AccountEntry("user@contoso.com", "User")}]

\* the outcomes of fetch('https://graph.microsoft.com/v1.0/me')
ProfileLookups == {"ok", "http_error", "exception"}

\* lines 119-123: showUserInfo, whose failures are not fatal, then the flow ends.
AuthShowUserInfo ==
    /\ authPc = "Saved"
    /\ \E lookup \in ProfileLookups :
        LET f == files[TOKEN_CACHE_PATH] IN
        /\ IF lookup = "ok" /\ f.kind = "json" /\ f.doc.Account # {}
           THEN /\ files' = [files EXCEPT ![TOKEN_CACHE_PATH] = JsonFile(enrich(f.doc))]
                /\ lastWrite' = [by |-> "auth", path |-> TOKEN_CACHE_PATH,
                                 doc |-> enrich(f.doc)]
           ELSE UNCHANGED <<files, lastWrite>>
        /\ authLog' = [authLog EXCEPT !.net = @ + 1, !.exit = 0, !.lookup = lookup]
    /\ authPc' = "Succeeded"
    /\ UNCHANGED <<now, installedAtDefault, issued, cliVars, authTokens, msalAuthPc,
                   env, pollPc, pollInterval, expiresAt, wakeAt, roundTripVars>>

(* ------------------------------ msal-auth.mjs -------------------------- *)

\* const TOKEN_CACHE_PATH = '/data/.openclaw/workspace/scripts/m365-graph-cli/...':
\* the first candidate path only when the CLI is installed in that directory.
MsalAuthPath(atDefault) == IF atDefault THEN TOKEN_CACHE_PATHS[1] ELSE ForeignPath

\* pca.getTokenCache().serialize() after acquireTokenByDeviceCode
msalSerialized(at, rt, id, t, expiresIn) ==
    [Account |-> {AccountEntry("user@contoso.com", "User")},
     AccessToken |-> {AccessTokenEntry(at, SCOPES, t, t + expiresIn)},
     RefreshToken |-> {SecretEntry(rt)},
     IdToken |-> {SecretEntry(id)}]

\* authenticate(), lines 38-46: the device-code flow succeeded and the cache is
\* written to TOKEN_CACHE_PATH.
MsalAuthSuccess ==
    /\ msalAuthPc = "Polling"
    /\ \E expiresIn \in 1..MaxExpiresIn :
        LET doc == msalSerialized(issued + 1, issued + 2, issued + 3, now, expiresIn)
            path == MsalAuthPath(installedAtDefault)
        IN  /\ files' = [files EXCEPT ![path] = JsonFile(doc)]
            /\ lastWrite' = [by |-> "msal-auth", path |-> path, doc |-> doc]
    /\ issued' = issued + 3
    /\ msalAuthPc' = "Succeeded"
    /\ UNCHANGED <<now, installedAtDefault, cliVars, authPc, authTokens, pollVars,
                   roundTripVars>>

\* authenticate(), lines 48-53: acquireTokenByDeviceCode (or the write, when the
\* directory of TOKEN_CACHE_PATH does not exist) threw; process.exit(1).
MsalAuthFailure ==
    /\ msalAuthPc = "Polling"
    /\ msalAuthPc' = "Failed"
    /\ UNCHANGED <<now, files, installedAtDefault, issued, cliVars, authPc,
                   authTokens, pollVars, roundTripVars, lastWrite>>

(* ------------------------------- the system ---------------------------- *)

Tick ==
    /\ now < MaxTime
    /\ now' = now + 1
    /\ UNCHANGED <<files, installedAtDefault, issued, cliVars, authVars, lastWrite>>

\* the latest time the auth script can be waiting for: a device code obtained
\* at MaxTime, its last loop test just before the deadline, the longest poll
\* interval and the slow_down delay
MaxClock == MaxTime + MaxDeviceExpiresIn + MaxInterval + SlowDownSleep

\* the clock beyond MaxTime: it keeps advancing while the auth script is in its
\* loop and the deadline or the end of a sleep is still ahead
TickWaiting ==
    /\ now >= MaxTime
    /\ now < MaxClock
    /\ authPc = "Polling"
    /\ \/ now < expiresAt
       \/ pollPc \in {"sleeping", "slowdown"} /\ now < wakeAt
    /\ now' = now + 1
    /\ UNCHANGED <<files, installedAtDefault, issued, cliVars, authVars, lastWrite>>

\* the secrets of the stores that exist before the first run
InitSecrets == [access |-> 1, other |-> 2, refresh |-> 3]
InitAccessSecret == InitSecrets.access
InitOtherSecret == InitSecrets.other
InitRefreshSecret == InitSecrets.refresh

InitAccount == AccountEntry("user@contoso.com", "User")

\* the stores the first candidate path may hold at the start: with an account,
\* every combination of no / an expired / a still valid / a foreign access token
\* and no / a refresh token; and a store with tokens but no account
InitDocs ==
    { [Account |-> {InitAccount}, AccessToken |-> ats, RefreshToken |-> rts,
       IdToken |-> {}] :
        ats \in {{},
                 {AccessTokenEntry(InitAccessSecret, SCOPES, 0, 0)},
                 {AccessTokenEntry(InitAccessSecret, SCOPES, 0, 2)},
                 {AccessTokenEntry(InitOtherSecret, OtherScopes, 0, 3)}},
        rts \in {{}, {SecretEntry(InitRefreshSecret)}} }
    \cup
    { [Account |-> {},
       AccessToken |-> {AccessTokenEntry(InitAccessSecret, SCOPES, 0, 2)},
       RefreshToken |-> {SecretEntry(InitRefreshSecret)},
       IdToken |-> {}] }

\* an interop cache with an expired access token and a refresh token
InteropDoc ==
    [Account |-> {InitAccount},
     AccessToken |-> {AccessTokenEntry(InitAccessSecret, SCOPES, 0, 0)},
     RefreshToken |-> {SecretEntry(InitRefreshSecret)},
     IdToken |-> {}]

\* the state of the stores and of the CLI invocations before any run, the
\* candidate paths holding f1, f2 and f3
InitStore(F1, F2, F3, D) ==
    /\ now = 0
    /\ \E f1 \in F1, f2 \in F2, f3 \in F3 :
        files = [q \in Paths |-> IF q = TOKEN_CACHE_PATHS[1] THEN f1
                                 ELSE IF q = TOKEN_CACHE_PATHS[2] THEN f2
                                 ELSE IF q = TOKEN_CACHE_PATHS[3] THEN f3
                                 ELSE NoFile]
    /\ installedAtDefault \in D
    /\ issued = InitRefreshSecret
    /\ pc = [p \in Procs |-> "idle"]
    /\ cachePath = [p \in Procs |-> 0]
    /\ cacheData = [p \in Procs |-> NoFile]
    /\ accounts = [p \in Procs |-> {}]
    /\ response = [p \in Procs |-> 0]
    /\ result = [p \in Procs |-> NoResult]
    /\ seen = [p \in Procs |-> "none"]
    /\ lookupAt = [p \in Procs |-> -1]
    /\ netCalls = [p \in Procs |-> 0]
    /\ tokenResponse = [p \in Procs |-> NoResponse]
    /\ written = [p \in Procs |-> NoWritten]
    /\ msalAuthPc = "Polling"
    /\ lastWrite = NoWrite
    /\ saved = NotSaved
    /\ loaded = NotLoaded

\* the auth script with every environment value set, a device code obtained and
\* its first token request in flight
InitAwaitingTokens ==
    /\ authPc = "Polling"
    /\ authTokens = NoTokens
    /\ env = [tenant |-> TRUE, client |-> TRUE, secret |-> TRUE]
    /\ pollPc = "requesting"
    /\ pollInterval = DefaultPollInterval
    /\ expiresAt = MaxDeviceExpiresIn
    /\ wakeAt = 0
    /\ authLog = [NoLog EXCEPT !.net = 2, !.sentAt = 0]

\* the auth script before its first statement, under every environment
InitAuthScript ==
    /\ authPc = "Start"
    /\ authTokens = NoTokens
    /\ env \in [tenant : BOOLEAN, client : BOOLEAN, secret : BOOLEAN]
    /\ pollPc = "none"
    /\ pollInterval = 0
    /\ expiresAt = 0
    /\ wakeAt = 0
    /\ authLog = NoLog

\* the state after construction, the candidate paths holding f1, f2 and f3
InitWith(F1, F2, F3, D) == InitStore(F1, F2, F3, D) /\ InitAwaitingTokens

Init ==
    InitWith({NoFile, CorruptFile, UnreadableFile} \cup {JsonFile(d) : d \in InitDocs},
             {NoFile, CorruptFile, JsonFile(InteropDoc)},
             {NoFile, JsonFile(InteropDoc)},
             {TRUE})

(* ------------------------ saveCache and loadCache ---------------------- *)

\* the documents handed to saveCache: the stores of Init, the interop cache, an
\* empty store and what the authenticators build
RoundTripDocs ==
    InitDocs \cup {InteropDoc, EmptyDoc}
        \cup {saveTokenCache(t, 1) : t \in TokenResponses(1..MaxExpiresIn, {TRUE})}

\* saveCache(cache), lines 55-58; resolved is what findTokenCache answered
\* before the call
SaveCache ==
    /\ ~saved.done
    /\ \E d \in RoundTripDocs :
        /\ files' = saveCache(files, d)
        /\ saved' = [done |-> TRUE, doc |-> d, resolved |-> findTokenCache(files)]
        /\ lastWrite' = [by |-> "cli", path |-> TOKEN_CACHE_PATHS[1], doc |-> d]
    /\ UNCHANGED <<now, installedAtDefault, issued, cliVars, authPc, authTokens,
                   msalAuthPc, pollVars, loaded>>

\* loadCache(), lines 45-53, called after saveCache
LoadCache ==
    /\ saved.done
    /\ loaded = NotLoaded
    /\ loaded' = loadCache(files)
    /\ UNCHANGED <<now, files, installedAtDefault, issued, cliVars, authPc, authTokens,
                   msalAuthPc, pollVars, saved, lastWrite>>

\* the steps of the CLI invocations
Next ==
    \/ Tick
    \/ \E p \in Procs : Start(p)
    \/ \E p \in Procs : GetAccounts(p)
    \/ \E p \in Procs : AcquireSilent(p)
    \/ \E p \in Procs : RefreshRejected(p)
    \/ \E p \in Procs : RefreshGranted(p)
    \/ \E p \in Procs : Return(p)

\* the Token Manager: CLI invocations over every store of Init
Spec == Init /\ [][Next]_vars

\* the bootstrap: the two authenticators and one CLI invocation, started with no
\* store or an interop cache
InitBoot ==
    InitWith({NoFile, JsonFile(InteropDoc)}, {NoFile, JsonFile(InteropDoc)}, {NoFile},
             BOOLEAN)

BootProcs == {1}

NextBoot ==
    \/ Tick
    \/ \E p \in BootProcs : Start(p)
    \/ \E p \in BootProcs : GetAccounts(p)
    \/ \E p \in BootProcs : AcquireSilent(p)
    \/ \E p \in BootProcs : RefreshRejected(p)
    \/ \E p \in BootProcs : RefreshGranted(p)
    \/ \E p \in BootProcs : Return(p)
    \/ AuthTokenSuccess
    \/ AuthShowUserInfo
    \/ MsalAuthSuccess
    \/ MsalAuthFailure

SpecBoot == InitBoot /\ [][NextBoot]_vars

\* the life of one store: no store at first, the two authenticators writing the
\* first candidate path and one CLI invocation refreshing it
InitLifecycle == InitWith({NoFile}, {NoFile}, {NoFile}, {TRUE})

SpecLifecycle == InitLifecycle /\ [][NextBoot]_vars

\* the auth script alone, from its first statement, started with no store or an
\* interop cache at its path
InitAuth ==
    InitStore({NoFile, JsonFile(InteropDoc)}, {NoFile}, {NoFile}, {TRUE}) /\ InitAuthScript

NextAuth ==
    \/ Tick
    \/ AuthStart
    \/ AuthDeviceCode
    \/ PollTop
    \/ PollSend
    \/ PollError
    \/ PollAccepted
    \/ PollSlowDownDone
    \/ AuthFetchThrows
    \/ AuthShowUserInfo

SpecAuth == InitAuth /\ [][NextAuth]_vars

\* a step of the auth script: a statement runs, a sleep ends or a network call
\* returns
AuthStep ==
    \/ AuthStart
    \/ AuthDeviceCode
    \/ PollTop
    \/ PollSend
    \/ PollError
    \/ PollAccepted
    \/ PollSlowDownDone
    \/ AuthFetchThrows
    \/ AuthShowUserInfo

NextAuthFair ==
    \/ Tick
    \/ TickWaiting
    \/ AuthStep

\* the auth script before its first statement, no store on disk
InitAuthFair ==
    InitStore({NoFile}, {NoFile}, {NoFile}, {TRUE}) /\ InitAuthScript

\* the auth script alone, the clock advancing and the script taking its next
\* step (every network call returning) whenever it can
SpecAuthFair ==
    /\ InitAuthFair
    /\ [][NextAuthFair]_vars
    /\ WF_vars(Tick \/ TickWaiting)
    /\ WF_vars(AuthStep)

\* two CLI invocations over a store whose access token has expired, with the
\* two halves of writeFileSync as separate steps
InitRace ==
    InitWith({JsonFile(InteropDoc)}, {NoFile}, {NoFile}, {TRUE})

NextRace ==
    \/ Tick
    \/ \E p \in Procs : Start(p)
    \/ \E p \in Procs : GetAccounts(p)
    \/ \E p \in Procs : AcquireSilent(p)
    \/ \E p \in Procs : RefreshRejected(p)
    \/ \E p \in Procs : RefreshGrantedOpen(p)
    \/ \E p \in Procs : RefreshGrantedWrite(p)
    \/ \E p \in Procs : Return(p)

SpecRace == InitRace /\ [][NextRace]_vars

\* saveCache followed by loadCache, over every combination of candidate paths
\* that are absent or hold a store or a text that is not JSON
InitRoundTrip ==
    InitWith({NoFile, CorruptFile} \cup {JsonFile(d) : d \in InitDocs},
             {NoFile, CorruptFile, JsonFile(InteropDoc)},
             {NoFile, JsonFile(InteropDoc)},
             {TRUE})

NextRoundTrip ==
    \/ SaveCache
    \/ LoadCache

SpecRoundTrip == InitRoundTrip /\ [][NextRoundTrip]_vars

(* ------------------------------ properties ----------------------------- *)

\* the access tokens of a store that match the account and the CLI's scopes
MatchingTokens(doc) ==
    {a \in doc.AccessToken : doc.Account # {} /\ RequestScopes \subseteq a.target}

\* the invocation p read a store whose matching access token was still valid
\* when acquireTokenSilent looked it up
HadValidToken(p) ==
    /\ cacheData[p].kind = "json"
    /\ \E a \in MatchingTokens(cacheData[p].doc) : lookupAt[p] < a.expires_on

\* the invocation p read a store with an account, no valid matching access token
\* at the lookup, and the refresh tokens rts
HadNoValidToken(p) ==
    /\ cacheData[p].kind = "json"
    /\ cacheData[p].doc.Account # {}
    /\ lookupAt[p] >= 0
    /\ \A a \in MatchingTokens(cacheData[p].doc) : lookupAt[p] >= a.expires_on

\* C1: an invocation that read a store holding a matching access token with the
\* time of the lookup strictly before its expires_on ends with exactly that
\* token's secret and has sent no request to the identity provider.
C1_CacheHit ==
    \A p \in Procs :
        (pc[p] = "done" /\ HadValidToken(p)) =>
            /\ netCalls[p] = 0
            /\ result[p].kind = "token"
            /\ \E a \in MatchingTokens(cacheData[p].doc) :
                lookupAt[p] < a.expires_on /\ result[p].token = a.secret

\* C1's case: a cache hit after the clock has advanced, the token still valid
C1_Witness ==
    \E p \in Procs :
        /\ pc[p] = "done" /\ HadValidToken(p) /\ lookupAt[p] = 1
        /\ result[p] = TokenResult(InitAccessSecret)

\* C2: once the refresh grant of an invocation has succeeded, the invocation has
\* written the store with the new access token (and the replacement refresh
\* token if one was issued) before it returns; the written expires_on is strictly
\* greater than that of the access token it replaces; and it returns the new
\* secret.
C2_RefreshPersistsThenReturns ==
    \A p \in Procs :
        (tokenResponse[p].error = "" /\ pc[p] \in {"acquired", "done"}) =>
            /\ written[p].path = cachePath[p]
            /\ \E a \in written[p].doc.AccessToken :
                /\ a.secret = tokenResponse[p].access_token
                /\ RequestScopes \subseteq a.target
                /\ \A old \in MatchingTokens(cacheData[p].doc) :
                    a.expires_on > old.expires_on
            /\ tokenResponse[p].refresh_token # 0 =>
                written[p].doc.RefreshToken = {SecretEntry(tokenResponse[p].refresh_token)}
            /\ pc[p] = "done" => result[p] = TokenResult(tokenResponse[p].access_token)
            /\ pc[p] = "acquired" => result[p] = NoResult

\* C2's case: an expired access token was refreshed, the refresh token rotated,
\* and the invocation returned
C2_Witness ==
    \E p \in Procs :
        /\ pc[p] = "done" /\ tokenResponse[p].error = ""
        /\ tokenResponse[p].refresh_token # 0
        /\ MatchingTokens(cacheData[p].doc) # {}
        /\ written[p].path # 0

\* C3: whatever the outcome of an invocation, it has written a store file only
\* if its refresh grant succeeded; a cache hit writes nothing.
C3_OnlyRefreshWrites ==
    \A p \in Procs : written[p].path # 0 => tokenResponse[p].error = ""

\* C3's case: every outcome other than a successful refresh has been reached by
\* some invocation that wrote nothing; here the cache hit
C3_Witness ==
    \E p \in Procs :
        /\ pc[p] = "done" /\ result[p].kind = "token" /\ netCalls[p] = 0
        /\ written[p].path = 0
        /\ files[cachePath[p]] = cacheData[p]

\* C4: an invocation that read a store with an expired access token and no
\* refresh token fails with the library's "no tokens found" error wrapped by the
\* catch block (RefreshUnavailable), has sent no request and has written nothing.
C4_RefreshUnavailable ==
    \A p \in Procs :
        (/\ pc[p] = "done" /\ HadNoValidToken(p)
         /\ MatchingTokens(cacheData[p].doc) # {}
         /\ cacheData[p].doc.RefreshToken = {}) =>
            /\ result[p] = ErrorResult("TokenAcquisitionFailed", "no_tokens_found")
            /\ netCalls[p] = 0
            /\ written[p].path = 0

\* C4's case: an expired token, no refresh token, the invocation over
C4_Witness ==
    \E p \in Procs :
        /\ pc[p] = "done" /\ HadNoValidToken(p)
        /\ MatchingTokens(cacheData[p].doc) # {}
        /\ cacheData[p].doc.RefreshToken = {}
        /\ files[cachePath[p]] = cacheData[p]

\* C5 (as claimed): an invocation that found the store absent, unreadable or
\* unparseable fails with NoCredentials.
C5_NoCredentialsForBadStore ==
    \A p \in Procs :
        (pc[p] = "done" /\ seen[p] \in {"absent", "unreadable", "corrupt"}) =>
            result[p].kind = "NoCredentials"

\* C6 (as claimed): every write of an invocation goes to the first candidate path.
C6_WritesFirstPath ==
    \A p \in Procs : written[p].path # 0 => written[p].path = TOKEN_CACHE_PATHS[1]

\* the indexes of the candidate paths that exist
Existing(fs) == {i \in 1..Len(TOKEN_CACHE_PATHS) : existsSync(fs, TOKEN_CACHE_PATHS[i])}

\* C7: store resolution returns the lowest-index candidate path that exists, and
\* the first path when none exists; so does the path every invocation resolved.
C7_FirstExisting ==
    LET lowest == IF Existing(files) = {} THEN TOKEN_CACHE_PATHS[1]
                  ELSE TOKEN_CACHE_PATHS[
                        CHOOSE i \in Existing(files) : \A j \in Existing(files) : i <= j]
    IN  /\ findTokenCache(files) = lowest
        /\ \A p \in Procs : pc[p] # "idle" => cachePath[p] = lowest

\* C7's case: the first path absent, the two others present, resolution done
C7_Witness ==
    /\ Existing(files) = {2, 3}
    /\ \E p \in Procs : pc[p] # "idle" /\ cachePath[p] = TOKEN_CACHE_PATHS[2]

\* C8 (as claimed): after an authenticator has written the store, store
\* resolution selects the path it wrote, and the document there is the one it
\* wrote.
C8_AuthWritesResolvedPath ==
    lastWrite.by \in {"auth", "msal-auth"} =>
        /\ findTokenCache(files) = lastWrite.path
        /\ files[findTokenCache(files)] = JsonFile(lastWrite.doc)

\* C9: an invocation that read a store with zero accounts fails with NoAccount,
\* has sent no request and has written nothing.
C9_NoAccount ==
    \A p \in Procs :
        (pc[p] \notin {"idle", "accounts"} /\ cacheData[p].kind = "json"
         /\ cacheData[p].doc.Account = {}) =>
            /\ pc[p] = "done"
            /\ result[p].kind = "NoAccount"
            /\ netCalls[p] = 0
            /\ written[p].path = 0

\* C9's case: a store with tokens but no account, the invocation over
C9_Witness ==
    \E p \in Procs :
        /\ pc[p] = "done" /\ cacheData[p].kind = "json"
        /\ cacheData[p].doc.Account = {}
        /\ cacheData[p].doc.RefreshToken # {}

\* C10: an invocation sends at most one refresh grant; when the provider rejects
\* it the invocation is over at once (no second request, no other flow), failed
\* with the provider's error text.
C10_RefreshFailedIsTerminal ==
    \A p \in Procs :
        /\ netCalls[p] <= 1
        /\ tokenResponse[p].error \in ProviderErrors =>
            /\ pc[p] = "done"
            /\ result[p] = ErrorResult("TokenAcquisitionFailed", tokenResponse[p].error)

\* C10's case: the provider rejected the refresh grant
C10_Witness ==
    \E p \in Procs :
        /\ pc[p] = "done" /\ netCalls[p] = 1
        /\ tokenResponse[p] = Rejected("invalid_grant")

(* ------------------- properties of the device-code flow ---------------- *)

\* the tokenResult the auth script accepted carries an access token with a
\* positive lifetime
AcceptedTokens ==
    /\ authLog.prev = "tokens"
    /\ authTokens.access_token # 0
    /\ authTokens.expires_in >= 1

\* C11: after an authorization_pending answer the auth script is still polling
\* (until the deadline test ends the loop), and once a token response has come
\* before the deadline the script is past saveTokenCache, never Expired or
\* Failed, exits with 0, and the store it wrote at TOKEN_CACHE_PATH holds exactly
\* one access token, the one of the response, unexpired when it was written.
C11_PendingThenTokens ==
    /\ authLog.prev = "authorization_pending" => authPc \in {"Polling", "Expired"}
    /\ authLog.prev = "authorization_pending" /\ authPc = "Expired" =>
            pollPc = "top" /\ now >= expiresAt
    /\ AcceptedTokens /\ authLog.prevAt < expiresAt =>
        /\ authPc \in {"Saved", "Succeeded"}
        /\ authLog.exit = IF authPc = "Succeeded" THEN 0 ELSE -1
        /\ lastWrite.by = "auth" /\ lastWrite.path = TOKEN_CACHE_PATH
        /\ files[TOKEN_CACHE_PATH] = JsonFile(lastWrite.doc)
        /\ Cardinality(lastWrite.doc.AccessToken) = 1
        /\ \A a \in lastWrite.doc.AccessToken :
            /\ a.secret = authTokens.access_token
            /\ authLog.savedAt < a.expires_on

\* two authorization_pending answers, then tokens before the deadline, and the
\* flow has ended
C11_Witness ==
    /\ AcceptedTokens /\ authLog.prevAt < expiresAt
    /\ authLog.pendings = 2
    /\ authPc = "Succeeded"

\* C12: a run of the auth script that is in Expired or Failed has exit code 1,
\* never ran saveTokenCache and left the file at TOKEN_CACHE_PATH as it found it
\* (absent if it was absent); expired_token ends the run in Expired and any
\* other provider error in Failed.
C12_FailureWritesNothing ==
    /\ authPc \in {"Expired", "Failed"} =>
        /\ authLog.exit = 1
        /\ authLog.savedAt = -1
        /\ lastWrite = NoWrite
        /\ files[TOKEN_CACHE_PATH] = authLog.before
    /\ authLog.prev = "expired_token" => authPc = "Expired"
    /\ authLog.prev \in TokenErrors \ {"authorization_pending", "slow_down",
                                        "expired_token"} => authPc = "Failed"

\* a run that found no store, was told to wait and then got an error the script
\* has no branch for
C12_Witness ==
    /\ authPc = "Failed"
    /\ authLog.prev = "access_denied"
    /\ authLog.pendings >= 1
    /\ authLog.before = NoFile

\* C13: no token request is sent after the deadline expiresAt (the issuance
\* time plus the device code's expires_in), and no run is past saveTokenCache on
\* the answer to a request sent after it.
C13_NothingAfterDeadline ==
    /\ ~authLog.sentLate
    /\ authPc \in {"Saved", "Succeeded"} => authLog.sentAt <= expiresAt

\* C14: after a slow_down answer the auth script is still polling (until the
\* deadline test ends the loop), has surfaced no error and written no store,
\* and its next token request leaves no sooner than the poll interval plus five
\* seconds after that answer.
C14_SlowDownBacksOff ==
    authLog.prev = "slow_down" =>
        /\ authPc \in {"Polling", "Expired"}
        /\ authPc = "Expired" => pollPc = "top" /\ now >= expiresAt
        /\ authPc = "Polling" => authLog.exit = -1
        /\ authLog.savedAt = -1
        /\ lastWrite = NoWrite
        /\ pollPc = "requesting" =>
                authLog.sentAt - authLog.prevAt >= pollInterval + SlowDownSleep

\* the token request that follows a slow_down answer is in flight
C14_Witness ==
    /\ authLog.prev = "slow_down"
    /\ authPc = "Polling"
    /\ pollPc = "requesting"
    /\ authLog.sentAt > authLog.prevAt

\* the document saveTokenCache built in this run
FirstWritten == saveTokenCache(authTokens, authLog.savedAt)

\* C15: once saveTokenCache has run, the store at TOKEN_CACHE_PATH holds the
\* full document built from the token response before the profile lookup has
\* started; whatever the lookup's outcome the run then ends Succeeded with exit
\* code 0, never Failed, and the store keeps the access, refresh and ID token
\* entries as first written and one account, which differs from the first one
\* only when the lookup succeeded.
C15_EnrichmentKeepsTokens ==
    authLog.savedAt # -1 =>
        /\ authPc \in {"Saved", "Succeeded"}
        /\ authPc = "Saved" =>
            /\ authLog.lookup = ""
            /\ authLog.exit = -1
            /\ files[TOKEN_CACHE_PATH] = JsonFile(FirstWritten)
        /\ authPc = "Succeeded" =>
            /\ authLog.lookup \in ProfileLookups
            /\ authLog.exit = 0
            /\ files[TOKEN_CACHE_PATH].kind = "json"
            /\ LET doc == files[TOKEN_CACHE_PATH].doc IN
                /\ doc.AccessToken = FirstWritten.AccessToken
                /\ doc.RefreshToken = FirstWritten.RefreshToken
                /\ doc.IdToken = FirstWritten.IdToken
                /\ Cardinality(doc.Account) = 1
                /\ authLog.lookup # "ok" => doc = FirstWritten

\* the lookup succeeded and the account of a store with all three tokens was
\* given the profile's names
C15_Witness ==
    /\ authPc = "Succeeded"
    /\ authLog.lookup = "ok"
    /\ files[TOKEN_CACHE_PATH].doc.Account # FirstWritten.Account
    /\ authTokens.access_token # 0
    /\ authTokens.refresh_token # 0
    /\ authTokens.id_token # 0

(* ----------------------- properties of the store ----------------------- *)

\* C16: when two CLI invocations have both written the store and both have
\* finished, the file holds the complete document of the one whose write came
\* last.
C16_LastWriterWins ==
    (\A p \in Procs : pc[p] = "done" /\ written[p] # NoWritten) =>
        files[lastWrite.path] = JsonFile(lastWrite.doc)

\* C17: loadCache called after saveCache(cache) returns a document equal to
\* cache, whichever candidate paths existed before.
C17_RoundTrip ==
    loaded # NotLoaded => loaded = JsonFile(saved.doc)

\* a store with an ID token was saved and loaded while the first candidate path
\* did not exist before and the second held another store
C17_Witness ==
    /\ loaded # NotLoaded
    /\ saved.resolved = TOKEN_CACHE_PATHS[2]
    /\ files[TOKEN_CACHE_PATHS[2]] = JsonFile(InteropDoc)
    /\ saved.doc.IdToken # {}

\* the top-level maps of a store document
TopLevelMaps == {"Account", "AccessToken", "RefreshToken", "IdToken"}

\* C18: every document written to a store, by the auth script's bootstrap and
\* enrichment, by msal-auth.mjs and by a CLI refresh, in any order, has the
\* four maps Account, AccessToken, RefreshToken and IdToken, and so has every
\* store on disk.
C18_AllMapsPresent ==
    /\ lastWrite # NoWrite => DOMAIN lastWrite.doc = TopLevelMaps
    /\ \A q \in Paths : files[q].kind = "json" => DOMAIN files[q].doc = TopLevelMaps

\* the auth script created and enriched the store, and a CLI invocation then
\* refreshed it
C18_Witness ==
    /\ authPc = "Succeeded"
    /\ authLog.lookup = "ok"
    /\ lastWrite.by = "cli"
    /\ lastWrite.path = TOKEN_CACHE_PATH
    /\ lastWrite.doc.IdToken = {}

\* C19: every access token entry of a document the auth script wrote has an
\* expires_on that is a number not before its cached_at, whatever the
\* expires_in of the token response it was built from.
C19_ExpiresOnNotBeforeCachedAt ==
    lastWrite.by = "auth" =>
        \A a \in lastWrite.doc.AccessToken :
            a.expires_on # NaN /\ a.expires_on >= a.cached_at

\* C20: a run of the auth script started without the tenant id, the client id
\* or the client secret sends no network request.
C20_FailsBeforeNetwork ==
    ~env.tenant \/ ~env.client \/ ~env.secret => authLog.net = 0

\* the auth script has ended
Terminated == authPc \in {"Succeeded", "Expired", "Failed"}

\* C21: with the clock advancing and every network call returning, every run
\* of the auth script ends in Succeeded, Expired or Failed, whatever the token
\* endpoint answers, and stays there.
C21_Terminates == <>[]Terminated

\* a run that was only ever told to wait or to slow down, and ended at the
\* deadline
C21_Witness ==
    /\ authPc = "Expired"
    /\ authLog.pendings >= 2
    /\ authLog.prev = "slow_down"

\* C22: the auth script is past saveTokenCache, or has written a store, only on
\* a tokenResult that carries an access token, and every access token entry it
\* wrote has a secret.
C22_SuccessNeedsAccessToken ==
    authPc \in {"Saved", "Succeeded"} \/ lastWrite.by = "auth" =>
        /\ authTokens.access_token # 0
        /\ \A a \in lastWrite.doc.AccessToken : a.secret # 0

\* the refresh tokens the provider issued to the invocations (secrets are
\* issued in increasing order; 0: the grant came without a replacement)
IssuedRefreshTokens == {tokenResponse[p].refresh_token : p \in Procs} \ {0}

\* C23: when two CLI invocations have each read the store, been granted a
\* refresh, written the store back and finished, and the provider issued a
\* replacement refresh token to at least one of them, the store holds the
\* refresh token issued last.
C23_NewestRefreshTokenKept ==
    /\ \A p \in Procs : pc[p] = "done" /\ tokenResponse[p].error = ""
                             /\ written[p] # NoWritten
    /\ IssuedRefreshTokens # {}
    => \A p \in Procs :
        /\ files[written[p].path].kind = "json"
        /\ files[written[p].path].doc.RefreshToken =
            {SecretEntry(CHOOSE r \in IssuedRefreshTokens :
                            \A o \in IssuedRefreshTokens : o <= r)}

====
